---- MODULE Spec2Model ----
(***************************************************************************)
(* Model of WebRtcClient (app/wyzecam/kinesis/webrtc_client.py): the       *)
(* signaling / session-lifecycle coordinator of the Wyze KVS WebRTC        *)
(* stream.  One WebRtcClient instance, its fields, and the asyncio tasks   *)
(* that run its coroutines.  The discovery API (get_camera_stream), the    *)
(* aiortc peer connection and the web socket are external: their results   *)
(* are chosen nondeterministically.                                        *)
(*                                                                         *)
(* __init__ reads self.webrtc_context before anything assigns it (line 49);*)
(* the model describes an instance whose class supplies that attribute, so *)
(* that the remaining methods can be exercised at all.                     *)
(***************************************************************************)
EXTENDS Integers, Sequences, FiniteSets, TLC

\* ---------------------------------------------------------------- bounds
MaxPc == 1        \* peer connections the factory may create
MaxWs == 1        \* web sockets the channel-opening code may open
MaxCand == 2      \* inbound ice-candidate messages
MaxOffers == 1    \* inbound offer messages
MaxCleanup == 2   \* cleanup() calls
MaxIce == 2       \* relay descriptors in one discovery record
MaxLocal == 1     \* locally gathered candidates the transport reports

None == "None"   \* Python's None, where the other values are strings
NoObject == 0    \* Python's None, where the other values are objects
NoToken == <<>>  \* Python's None, where the other values are identities

\* ------------------------------------------------------- SessionIdentity
\* str(uuid.uuid4()) is a 36 character string; two sample values, as the
\* bytes .encode() produces.
UuidA ==
  <<51,102,50,98,56,99,49,101,45,55,97,52,100,45,52,101,57,98,45,57,99,49,
    97,45,53,100,54,101,55,102,56,48,57,49,97,50>>
UuidB ==
  <<99,48,102,102,101,101,48,48,45,49,50,51,52,45,52,97,98,99,45,56,100,
    101,102,45,48,49,50,51,52,53,54,55,56,57,97,98>>
Uuids == {UuidA, UuidB}

\* bitwise exclusive or of two naturals
RECURSIVE Xor(_, _)
Xor(a, b) ==
  IF a = 0 THEN b
  ELSE IF b = 0 THEN a
  ELSE (((a % 2) + (b % 2)) % 2) + 2 * Xor(a \div 2, b \div 2)

\* The 32 bit CRC register is the pair <<high 16 bits, low 16 bits>>.
\* One bit of the reflected CRC-32 (polynomial 0xEDB88320).
CrcShift(c) ==
  LET hi == c[1] \div 2
      lo == (c[2] \div 2) + (c[1] % 2) * 32768
  IN  IF (c[2] % 2) = 1 THEN <<Xor(hi, 60856), Xor(lo, 33568)>> ELSE <<hi, lo>>

RECURSIVE CrcBits(_, _)
CrcBits(c, n) ==
  IF n = 0 THEN c
  ELSE LET d == CrcShift(c) IN IF d[1] >= 0 THEN CrcBits(d, n - 1) ELSE d

CrcByte(c, b) == CrcBits(<<c[1], Xor(c[2], b)>>, 8)

RECURSIVE CrcBytes(_, _, _)
CrcBytes(c, bytes, i) ==
  IF i > Len(bytes) THEN c
  ELSE LET d == CrcByte(c, bytes[i]) IN IF d[1] >= 0 THEN CrcBytes(d, bytes, i + 1) ELSE d

\* zlib.crc32(data)
crc32(bytes) ==
  LET c == CrcBytes(<<65535, 65535>>, bytes, 1)
  IN  <<65535 - c[1], 65535 - c[2]>>

\* format(x, "08x"): eight hexadecimal digits, most significant first
Hex4(n) == <<n \div 4096, (n \div 256) % 16, (n \div 16) % 16, n % 16>>
format08x(c) == Hex4(c[1]) \o Hex4(c[2])

\* format(zlib.crc32(session_id.encode()) & 0xFFFFFFFF, "08x")[4:]
SessionCrc32(token) == SubSeq(format08x(crc32(token)), 5, 8)

\* one token's fingerprint given to every identity
Crc32OfFirstToken == [u \in Uuids |-> SessionCrc32(UuidA)]

\* the fingerprint of every identity uuid4 may produce, tabulated
Crc32Of == [u \in Uuids |-> SessionCrc32(u)]

\* ------------------------------------------------------------- the state
VARIABLES
  state,                \* self.state
  session_id,           \* self.session_id
  session_id_crc32,     \* self.session_id_crc32
  mac, access_token, model,
  webrtc_context,       \* self.webrtc_context (signaling token, url, ice servers)
  ice_servers,          \* self.ice_servers
  ice_candidates_before_sdp_answer,
  web_socket,           \* self.web_socket: None or an index into sockets
  web_socket_opened,
  peer_connection,      \* self.peer_connection: None or an index into pcs
  pcs,                  \* the RTCPeerConnection objects created so far
  sockets,              \* the web socket objects opened so far
  sig,                  \* the task running handle_signaling_message
  pollers,              \* tasks suspended in complete_start_webrtc_connection
  cl,                   \* the task running cleanup
  status_notifications, \* what self.status_listener has been told
  discovery,            \* calls of get_camera_stream and the last result
  delivered,            \* inbound ice-candidate messages handled so far
  counts,               \* operations issued so far (for the bounds)
  stops,                \* self.state at each cleanup() call so far
  lastOp                \* the operation of the last step and its outcome

coordinator ==
  <<state, session_id, session_id_crc32, mac, access_token, model,
    webrtc_context, ice_servers, ice_candidates_before_sdp_answer,
    web_socket, web_socket_opened, peer_connection>>
environment == <<pcs, sockets>>
tasks == <<sig, pollers, cl>>
history == <<status_notifications, discovery, delivered, counts, stops>>
vars == <<coordinator, environment, tasks, history, lastOp>>

WebRtcState == {"CONNECTING", "CONNECTED", "DISCONNECTING", "DISCONNECTED"}

\* ------------------------------------------------------- discovery data
\* IceServer records as get_camera_stream returns them (params.ice_servers)
SampleIce ==
  <<[url |-> "stun:a", username |-> None, credential |-> None],
    [url |-> "turn:b", username |-> "user", credential |-> "secret"],
    [url |-> "turn:c", username |-> "user", credential |-> None]>>
IceLists == {SubSeq(SampleIce, 1, n) : n \in 0..MaxIce}

\* Stream.params of a usable session record
Streams ==
  {[auth_token |-> IF l = <<>> THEN None ELSE "auth",
    signaling_url |-> IF l = <<>> THEN None ELSE "wss://signal",
    ice_servers |-> l] : l \in IceLists}
\* what get_camera_stream does: raise, return nothing, return a stream
DiscoveryResults ==
  {[kind |-> "raise"], [kind |-> "none"]} \cup
  {[kind |-> "stream", params |-> p] : p \in Streams}

\* x or ""
OrEmpty(x) == IF x = None THEN "" ELSE x

\* IceServer(url=..., username=... or "", credential=... or "")
IceServerOf(ice_service) ==
  [url |-> ice_service.url,
   username |-> OrEmpty(ice_service.username),
   credential |-> OrEmpty(ice_service.credential)]

\* the loop over params.ice_servers
ConfigureIceServers(list) == [i \in 1..Len(list) |-> IceServerOf(list[i])]

Init ==
  /\ state = "DISCONNECTED"
  /\ webrtc_context = [signaling_token |-> None, signaling_url |-> None,
                       ice_servers |-> <<>>]
  /\ ice_servers = <<>>
  /\ ice_candidates_before_sdp_answer = <<>>
  /\ session_id = NoToken
  /\ session_id_crc32 = NoToken
  /\ mac = None
  /\ access_token = None
  /\ model = None
  /\ web_socket = NoObject
  /\ web_socket_opened = FALSE
  /\ peer_connection = NoObject
  /\ pcs = <<>>
  /\ sockets = <<>>
  /\ sig = [pc |-> "idle", answer |-> None]
  /\ pollers = 0
  /\ cl = "idle"
  /\ status_notifications = <<>>
  /\ discovery = [calls |-> 0, result |-> [kind |-> "never"]]
  /\ delivered = <<>>
  /\ counts = [cleanup |-> 0, offers |-> 0, local |-> 0]
  /\ stops = <<>>
  /\ lastOp = [op |-> "init", res |-> None]

\* ------------------------------------------------------------- start()
Params == {"", "x"}

\* the validation without its test of model
MissingParameterNoModel(m, a, mo) == m = "" \/ a = ""

\* any(not v for v in required.values())
MissingParameter(m, a, mo) == m = "" \/ a = "" \/ mo = ""

\* the state check without its elif branch
StartRejectedOnlyConnected(s) == s = "CONNECTED"

\* the state check of start_webrtc_connection: TRUE when the call returns
\* without starting anything
StartRejected(s) == s = "CONNECTED" \/ s # "DISCONNECTED"

\* what a start_webrtc_connection(mac, access_token, model) call did
StartOp(res, m, a, mo) == [op |-> "start", res |-> res, args |-> <<m, a, mo>>]

\* create_webrtc_session(device_id, device_model), given what
\* get_camera_stream does; the state is CONNECTING on entry and
\* self.access_token holds the token of this start
create_webrtc_session(device_id, device_model, result) ==
  /\ discovery' = [calls |-> discovery.calls + 1, result |-> result]
  /\ IF result.kind = "raise"
       THEN /\ state' = "CONNECTING"
            /\ UNCHANGED webrtc_context
            /\ lastOp' = StartOp("discovery raised", device_id, access_token',
                                 device_model)
     ELSE IF result.kind = "none"
       THEN /\ state' = "CONNECTING"
            /\ UNCHANGED webrtc_context
            /\ lastOp' = StartOp("no stream", device_id, access_token',
                                 device_model)
     ELSE /\ webrtc_context' =
               [signaling_token |-> OrEmpty(result.params.auth_token),
                signaling_url |-> OrEmpty(result.params.signaling_url),
                ice_servers |-> ConfigureIceServers(result.params.ice_servers)]
          \* self.state = CONNECTED; the coroutine that
          \* complete_start_webrtc_connection() returns is never awaited
          /\ state' = "CONNECTED"
          /\ lastOp' = StartOp("session created", device_id, access_token',
                               device_model)

start_webrtc_connection(m, a, mo) ==
  IF MissingParameter(m, a, mo)
    THEN /\ lastOp' = StartOp("ValueError", m, a, mo)
         /\ UNCHANGED <<coordinator, environment, tasks, history>>
  ELSE IF StartRejected(state)
    THEN /\ lastOp' = StartOp("rejected", m, a, mo)
         /\ UNCHANGED <<coordinator, environment, tasks, history>>
  ELSE /\ \E u \in Uuids :
            /\ session_id' = u
            /\ session_id_crc32' = Crc32Of[u]
       /\ mac' = m
       /\ access_token' = a
       /\ model' = mo
       /\ \E result \in DiscoveryResults :
            create_webrtc_session(m, mo, result)
       /\ UNCHANGED <<ice_servers, ice_candidates_before_sdp_answer,
                      web_socket, web_socket_opened, peer_connection,
                      environment, tasks, status_notifications, delivered,
                      counts, stops>>

\* --------------------------------------------- transport session set-up
\* [RTCIceServer(urls=ice_server.urls) for ice_server in self.ice_servers]:
\* an IceServer has url, username and credential but no attribute urls
RtcConfiguration(servers) ==
  IF servers = <<>> THEN <<>> ELSE <<"AttributeError">>

FactoryHandlers == {"connectionstatechange", "track"}
SetupHandlers ==
  {"iceconnectionstatechange", "icegatheringstatechange", "icecandidate"}

\* RTCPeerConnection(configuration=config) with the handlers the factory
\* registers on it
webrtc_peer_connection_factory(config) ==
  [configuration |-> config, connectionState |-> "new",
   remoteDescription |-> None, localDescription |-> None,
   candidates |-> <<>>, closeCalls |-> 0, handlers |-> FactoryHandlers,
   reported |-> {}]

\* the handlers setup_peer_connection_handlers adds to a peer connection
setup_peer_connection_handlers(conn) ==
  [conn EXCEPT !.handlers = @ \cup SetupHandlers]

\* complete_start_webrtc_connection() up to its first suspension: the
\* factory, the handlers, the first test of the polling loop
complete_start_webrtc_connection ==
  /\ Len(pcs) < MaxPc
  /\ LET config == RtcConfiguration(ice_servers) IN
       IF config = <<"AttributeError">>
         THEN /\ lastOp' = [op |-> "complete_start", res |-> "AttributeError"]
              /\ UNCHANGED <<coordinator, environment, tasks, history>>
       ELSE /\ pcs' = Append(pcs, setup_peer_connection_handlers(
                                    webrtc_peer_connection_factory(config)))
            /\ peer_connection' = Len(pcs) + 1
            /\ pollers' = pollers + 1
            /\ lastOp' = [op |-> "complete_start", res |-> "polling"]
            /\ UNCHANGED <<state, session_id, session_id_crc32, mac,
                           access_token, model, webrtc_context, ice_servers,
                           ice_candidates_before_sdp_answer, web_socket,
                           web_socket_opened, sockets, sig, cl, history>>

\* one turn of `while self.peer_connection.connectionState != "connected"`
PollConnectionState ==
  /\ pollers > 0
  /\ IF pcs[peer_connection].connectionState # "connected"
       THEN /\ lastOp' = [op |-> "poll", res |-> "sleep"]
            /\ UNCHANGED pollers
       ELSE /\ lastOp' = [op |-> "poll", res |-> "returned"]
            /\ pollers' = pollers - 1
  /\ UNCHANGED <<coordinator, environment, sig, cl, history>>

\* ------------------------------------------------------ transport events
\* the connection states a transport session may report after s
NextConnectionStates(s) ==
  CASE s = "new" -> {"connecting"}
    [] s = "connecting" -> {"connected", "failed", "closed"}
    [] s = "connected" -> {"failed", "closed"}
    [] OTHER -> {}

\* the transport changes its connection state; on_connectionstatechange
\* logs it
on_connectionstatechange(i, s) ==
  /\ i \in 1..Len(pcs)
  /\ s \in NextConnectionStates(pcs[i].connectionState)
  /\ pcs' = [pcs EXCEPT ![i].connectionState = s,
                         ![i].reported = @ \cup {s}]
  /\ lastOp' = [op |-> "on_connectionstatechange", res |-> s]
  /\ UNCHANGED <<coordinator, sockets, tasks, history>>

\* on_track logs the track; an audio track is disabled
on_track(i, kind) ==
  /\ i \in 1..Len(pcs)
  /\ "track" \in pcs[i].handlers
  /\ lastOp' = [op |-> "on_track", res |-> kind]
  /\ UNCHANGED <<coordinator, environment, tasks, history>>

\* self.web_socket.send(text): what happens to the socket, or the error
Send(text) ==
  IF web_socket = NoObject THEN "AttributeError"
  ELSE IF sockets[web_socket].closed THEN "ConnectionClosed"
  ELSE "sent"

\* the sockets after self.web_socket.send(text): a socket records what it
\* was asked to send and whether it was closed by then
SocketsAfterSend(text) ==
  IF web_socket = NoObject THEN sockets
  ELSE [sockets EXCEPT ![web_socket].sent =
          Append(@, [type |-> text.type, body |-> text.body,
                     closed |-> sockets[web_socket].closed])]

\* on_icecandidate(event): has_candidate is `event.candidate` being set
on_icecandidate(i, has_candidate) ==
  /\ i \in 1..Len(pcs)
  /\ "icecandidate" \in pcs[i].handlers
  /\ IF ~has_candidate
       THEN /\ lastOp' = [op |-> "on_icecandidate", res |-> "no candidate"]
            /\ UNCHANGED <<sockets, counts>>
     ELSE LET msg == [type |-> "ice-candidate", body |-> "local"] IN
          /\ counts.local < MaxLocal
          /\ counts' = [counts EXCEPT !.local = @ + 1]
          /\ lastOp' = [op |-> "on_icecandidate", res |-> Send(msg)]
          /\ sockets' = SocketsAfterSend(msg)
  /\ UNCHANGED <<coordinator, pcs, tasks, status_notifications, discovery,
                 delivered, stops>>

\* --------------------------------------------------- inbound signaling
Offer == [type |-> "offer", sdp |-> "v=0"]
Malformed == [type |-> "not json"]
Unrecognized == [type |-> "bye"]
IceCandidate(c) == [type |-> "ice-candidate", candidate |-> c]
NoCandidate == 0   \* an empty candidate field

\* TRUE when no local description has been applied to the current peer
\* connection
BeforeLocalDescription ==
  \/ peer_connection = NoObject
  \/ pcs[peer_connection].localDescription = None

\* the except clause of handle_signaling_message: log, then raise
Raised(what) == /\ lastOp' = [op |-> what, res |-> "raised"]
                /\ sig' = [pc |-> "idle", answer |-> None]

\* addIceCandidate raised: the except clause, and nothing else
candidate_failed == Raised("ice-candidate") /\ UNCHANGED pcs

\* handle_signaling_message(message) up to its first suspension
handle_signaling_message(msg) ==
  /\ sig.pc = "idle"
  /\ IF msg = Malformed
       THEN \* json.loads raises
            /\ Raised("signaling")
            /\ UNCHANGED <<coordinator, environment, pollers, cl, history>>
     ELSE IF msg.type = "offer"
       THEN /\ counts.offers < MaxOffers
            /\ counts' = [counts EXCEPT !.offers = @ + 1]
            /\ IF peer_connection = NoObject
                 THEN Raised("offer") /\ UNCHANGED pcs
               ELSE \E ok \in BOOLEAN :
                      IF ok
                        THEN /\ pcs' = [pcs EXCEPT
                                  ![peer_connection].remoteDescription = msg.sdp]
                             /\ sig' = [pc |-> "createAnswer", answer |-> None]
                             /\ lastOp' = [op |-> "offer", res |-> "setRemoteDescription"]
                      ELSE Raised("offer") /\ UNCHANGED pcs
            /\ UNCHANGED <<coordinator, sockets, pollers, cl,
                           status_notifications, discovery, delivered, stops>>
     ELSE IF msg.type = "ice-candidate"
       THEN IF msg.candidate = NoCandidate
              THEN /\ lastOp' = [op |-> "ice-candidate", res |-> "ignored"]
                   /\ UNCHANGED <<coordinator, environment, tasks, history>>
            ELSE /\ Len(delivered) < MaxCand
                 /\ msg.candidate = Len(delivered) + 1
                 \* ok: whether the transport accepts the candidate;
                 \* without a peer connection the call itself fails
                 /\ \E ok \in IF peer_connection = NoObject
                                THEN {FALSE} ELSE BOOLEAN :
                      /\ delivered' = Append(delivered,
                           [candidate |-> msg.candidate,
                            pc |-> peer_connection,
                            early |-> BeforeLocalDescription,
                            ok |-> ok])
                      /\ IF ok
                           THEN /\ pcs' = [pcs EXCEPT
                                     ![peer_connection].candidates =
                                        Append(@, msg.candidate)]
                                /\ lastOp' = [op |-> "ice-candidate",
                                              res |-> "addIceCandidate"]
                                /\ UNCHANGED sig
                         ELSE candidate_failed
                 /\ UNCHANGED <<coordinator, sockets, pollers, cl,
                                status_notifications, discovery, counts,
                                stops>>
     ELSE /\ lastOp' = [op |-> "signaling", res |-> "ignored"]
          /\ UNCHANGED <<coordinator, environment, tasks, history>>

\* answer = await self.peer_connection.createAnswer()
offer_createAnswer ==
  /\ sig.pc = "createAnswer"
  /\ \E ok \in BOOLEAN :
       IF ok THEN /\ sig' = [pc |-> "setLocalDescription", answer |-> "answer"]
                  /\ lastOp' = [op |-> "offer", res |-> "createAnswer"]
       ELSE Raised("offer")
  /\ UNCHANGED <<coordinator, environment, pollers, cl, history>>

\* await self.peer_connection.setLocalDescription(answer)
offer_setLocalDescription ==
  /\ sig.pc = "setLocalDescription"
  /\ \E ok \in BOOLEAN :
       IF ok THEN /\ pcs' = [pcs EXCEPT
                       ![peer_connection].localDescription = sig.answer]
                  /\ sig' = [sig EXCEPT !.pc = "send"]
                  /\ lastOp' = [op |-> "offer", res |-> "setLocalDescription"]
       ELSE Raised("offer") /\ UNCHANGED pcs
  /\ UNCHANGED <<coordinator, sockets, pollers, cl, history>>

\* response = {"type": "answer", "sdp": ...localDescription.sdp};
\* await self.web_socket.send(json.dumps(response))
offer_send ==
  /\ sig.pc = "send"
  /\ LET sdp == pcs[peer_connection].localDescription
         response == [type |-> "answer", body |-> sdp] IN
       IF sdp = None \/ Send(response) # "sent"
         THEN /\ Raised("offer")
              /\ sockets' = IF sdp = None THEN sockets
                            ELSE SocketsAfterSend(response)
       ELSE /\ sockets' = SocketsAfterSend(response)
            /\ sig' = [pc |-> "idle", answer |-> None]
            /\ lastOp' = [op |-> "offer", res |-> "answered"]
  /\ UNCHANGED <<coordinator, pcs, pollers, cl, history>>

\* ---------------------------------------------------------- the channel
\* the channel-opening code connect_websocket stands for ("Your existing
\* WebSocket connection code here"): it may leave a socket in
\* self.web_socket
OpenSignalingChannel(opened) ==
  IF opened
    THEN /\ Len(sockets) < MaxWs
         /\ sockets' = Append(sockets,
              [closed |-> FALSE, closeCalls |-> 0, sent |-> <<>>])
         /\ web_socket' = Len(sockets) + 1
  ELSE UNCHANGED <<sockets, web_socket>>

\* connect_websocket() (and __aenter__): setup_peer_connection is not
\* defined, so the call raises after the flag is set
connect_websocket ==
  /\ \E opened \in BOOLEAN : OpenSignalingChannel(opened)
  /\ web_socket_opened' = TRUE
  /\ lastOp' = [op |-> "connect_websocket", res |-> "raised"]
  /\ UNCHANGED <<state, session_id, session_id_crc32, mac, access_token,
                 model, webrtc_context, ice_servers,
                 ice_candidates_before_sdp_answer, peer_connection, pcs,
                 tasks, history>>

\* ------------------------------------------------------------- cleanup()
\* a close() call on an object: the call is counted, and the object is
\* closed unless the call fails
ClosePeerConnection(conn, ok) ==
  [conn EXCEPT !.closeCalls = @ + 1,
               !.connectionState = IF ok THEN "closed" ELSE @]

CloseWebSocket(sock, ok) ==
  [sock EXCEPT !.closeCalls = @ + 1, !.closed = IF ok THEN TRUE ELSE @]

\* `if self.web_socket: await self.web_socket.close()` and, when nothing
\* suspends, the assignment after it
cleanup_web_socket ==
  IF web_socket # NoObject
    THEN /\ \E ok \in BOOLEAN :
              /\ sockets' = [sockets EXCEPT
                   ![web_socket] = CloseWebSocket(@, ok)]
              /\ IF ok THEN /\ cl' = "end"
                            /\ lastOp' = [op |-> "cleanup", res |-> "web_socket.close"]
                 ELSE /\ cl' = "idle"
                      /\ lastOp' = [op |-> "cleanup", res |-> "raised"]
         /\ UNCHANGED web_socket_opened
  ELSE /\ web_socket_opened' = FALSE
       /\ cl' = "idle"
       /\ lastOp' = [op |-> "cleanup", res |-> "done"]
       /\ UNCHANGED sockets

\* cleanup() (and __aexit__) up to its first suspension
cleanup ==
  /\ cl = "idle"
  /\ counts.cleanup < MaxCleanup
  /\ counts' = [counts EXCEPT !.cleanup = @ + 1]
  /\ stops' = Append(stops, state)
  /\ IF peer_connection # NoObject
       THEN /\ \E ok \in BOOLEAN :
                 /\ pcs' = [pcs EXCEPT
                      ![peer_connection] = ClosePeerConnection(@, ok)]
                 /\ IF ok THEN /\ cl' = "web_socket"
                               /\ lastOp' = [op |-> "cleanup", res |-> "peer_connection.close"]
                    ELSE /\ cl' = "idle"
                         /\ lastOp' = [op |-> "cleanup", res |-> "raised"]
            /\ UNCHANGED <<sockets, web_socket_opened>>
     ELSE cleanup_web_socket /\ UNCHANGED pcs
  /\ UNCHANGED <<state, session_id, session_id_crc32, mac, access_token,
                 model, webrtc_context, ice_servers,
                 ice_candidates_before_sdp_answer, web_socket,
                 peer_connection, sig, pollers, status_notifications,
                 discovery, delivered>>

\* cleanup() resumed after peer_connection.close()
cleanup_after_peer_connection ==
  /\ cl = "web_socket"
  /\ cleanup_web_socket
  /\ UNCHANGED <<state, session_id, session_id_crc32, mac, access_token,
                 model, webrtc_context, ice_servers,
                 ice_candidates_before_sdp_answer, web_socket,
                 peer_connection, pcs, sig, pollers, history>>

\* cleanup() resumed after web_socket.close()
cleanup_end ==
  /\ cl = "end"
  /\ web_socket_opened' = FALSE
  /\ cl' = "idle"
  /\ lastOp' = [op |-> "cleanup", res |-> "done"]
  /\ UNCHANGED <<state, session_id, session_id_crc32, mac, access_token,
                 model, webrtc_context, ice_servers,
                 ice_candidates_before_sdp_answer, web_socket,
                 peer_connection, environment, sig, pollers, history>>

\* ------------------------------------------------------ the whole system
Start == \E m \in Params, a \in Params, mo \in Params :
           start_webrtc_connection(m, a, mo)
Signaling ==
  \E msg \in {Offer, Malformed, Unrecognized} \cup
             {IceCandidate(c) : c \in 0..MaxCand} :
    handle_signaling_message(msg)
ConnectionStateChange ==
  \E i \in 1..MaxPc, s \in {"connecting", "connected", "failed", "closed"} :
    on_connectionstatechange(i, s)
Track == \E i \in 1..MaxPc, kind \in {"video", "audio"} : on_track(i, kind)
LocalCandidate == \E i \in 1..MaxPc, has \in BOOLEAN : on_icecandidate(i, has)

Next ==
  \/ Start
  \/ complete_start_webrtc_connection
  \/ PollConnectionState
  \/ ConnectionStateChange
  \/ Track
  \/ LocalCandidate
  \/ Signaling
  \/ offer_createAnswer
  \/ offer_setLocalDescription
  \/ offer_send
  \/ connect_websocket
  \/ cleanup
  \/ cleanup_after_peer_connection
  \/ cleanup_end

Spec == Init /\ [][Next]_vars

\* Spec is the product of groups of tasks that share few variables: the
\* session (start and the set-up of the transport), the teardown (the
\* channel and cleanup) and the negotiation (what the signaling channel
\* delivers).  Each property is checked in a group that holds every action
\* writing the variables the property reads.

\* the session: the caller's start and the transport session's set-up
NextSession ==
  \/ Start
  \/ complete_start_webrtc_connection
  \/ PollConnectionState
  \/ ConnectionStateChange

Session == Init /\ [][NextSession]_vars

\* the session with the channel and the teardown
NextLifecycle ==
  \/ NextSession
  \/ connect_websocket
  \/ cleanup
  \/ cleanup_after_peer_connection
  \/ cleanup_end

Lifecycle == Init /\ [][NextLifecycle]_vars

\* the event loop resumes every task that is ready: a task sleeping in the
\* polling loop wakes up, and a cleanup() whose close() call returned goes on
FairLifecycle ==
  /\ Lifecycle
  /\ WF_vars(PollConnectionState)
  /\ WF_vars(cleanup_after_peer_connection)
  /\ WF_vars(cleanup_end)

\* the negotiation over a transport session and a channel, with the
\* teardown
NextNegotiation ==
  \/ complete_start_webrtc_connection
  \/ connect_websocket
  \/ Signaling
  \/ offer_createAnswer
  \/ offer_setLocalDescription
  \/ offer_send
  \/ cleanup
  \/ cleanup_after_peer_connection
  \/ cleanup_end

Negotiation == Init /\ [][NextNegotiation]_vars

\* the events of one transport session and its channel: what the signaling
\* channel delivers and what the transport reports
NextEvents ==
  \/ complete_start_webrtc_connection
  \/ connect_websocket
  \/ Signaling
  \/ offer_createAnswer
  \/ offer_setLocalDescription
  \/ offer_send
  \/ ConnectionStateChange
  \/ Track
  \/ LocalCandidate

Events == Init /\ [][NextEvents]_vars

\* the candidates a transport session gathers, with the channel and the
\* teardown
NextCandidates ==
  \/ complete_start_webrtc_connection
  \/ connect_websocket
  \/ ConnectionStateChange
  \/ LocalCandidate
  \/ cleanup
  \/ cleanup_after_peer_connection
  \/ cleanup_end

Candidates == Init /\ [][NextCandidates]_vars

\* ---------------------------------------------------------- properties
Range(f) == {f[i] : i \in DOMAIN f}

\* the status observer has been told FAILED(reason)
Notified(reason) ==
  [status |-> "FAILED", reason |-> reason] \in Range(status_notifications)

\* the candidates of the messages in log, in order
RECURSIVE CandidatesOf(_)
CandidatesOf(log) ==
  IF log = <<>> THEN <<>>
  ELSE <<Head(log).candidate>> \o CandidatesOf(Tail(log))

IsPrefix(a, b) == Len(a) <= Len(b) /\ SubSeq(b, 1, Len(a)) = a

\* C1: a start() call issued while the state is CONNECTED, CONNECTING or
\* DISCONNECTING changes nothing: the state, the session identity, the
\* stored parameters and every other field stay as they were, the
\* discovery API is not called and no task is started.
C1_RejectedStartChangesNothing ==
  [][(lastOp'.op = "start"
        /\ state \in {"CONNECTED", "CONNECTING", "DISCONNECTING"})
       => UNCHANGED <<coordinator, environment, tasks, history>>]_vars

\* a start() has just been rejected while CONNECTING, after the one
\* discovery call of the accepted start
C1_Witness ==
  /\ lastOp.op = "start"
  /\ lastOp.res = "rejected"
  /\ state = "CONNECTING"
  /\ session_id # NoToken
  /\ discovery.calls = 1

\* C2: once a stop() has been processed, whatever the state it was called
\* in, the coordinator state is DISCONNECTED.
C2_StopDisconnects ==
  (lastOp.op = "cleanup" /\ cl = "idle") => state = "DISCONNECTED"

\* C3: close is attempted at most once on every transport session and
\* every signaling channel, and after a completed stop() none of them is
\* still open.
C3_ClosedExactlyOnce ==
  /\ \A i \in 1..Len(pcs) : pcs[i].closeCalls <= 1
  /\ \A j \in 1..Len(sockets) : sockets[j].closeCalls <= 1
  /\ lastOp = [op |-> "cleanup", res |-> "done"] =>
       /\ \A i \in 1..Len(pcs) : pcs[i].connectionState = "closed"
       /\ \A j \in 1..Len(sockets) : sockets[j].closed

\* C4: an ice-candidate that arrives at a transport session before its
\* local description is applied is held in the pending buffer, not applied;
\* once the local description is applied the early candidates the
\* transport accepts have been applied in their arrival order.
C4_EarlyCandidatesBuffered ==
  \A i \in 1..Len(pcs) :
    LET early == SelectSeq(delivered, LAMBDA d : d.pc = i /\ d.early)
        earlyOk == SelectSeq(early, LAMBDA d : d.ok)
    IN  IF pcs[i].localDescription = None
          THEN /\ pcs[i].candidates = <<>>
               /\ i = peer_connection =>
                    ice_candidates_before_sdp_answer = CandidatesOf(early)
        ELSE IsPrefix(CandidatesOf(earlyOk), pcs[i].candidates)

\* C5: a candidate that fails to apply to the transport session is
\* skipped, the failure staying inside the handler, and every transport
\* session has been given, in arrival order, exactly the candidates
\* delivered to it that it accepts.
C5_FailedCandidateSkipped ==
  /\ \A i \in 1..Len(pcs) :
       pcs[i].candidates =
         CandidatesOf(SelectSeq(delivered, LAMBDA d : d.pc = i /\ d.ok))
  /\ (/\ lastOp.op = "ice-candidate"
      /\ delivered # <<>>
      /\ delivered[Len(delivered)].pc # NoObject
      /\ ~delivered[Len(delivered)].ok)
       => lastOp.res # "raised"

\* C6: a start() whose discovery call raises or returns no session record
\* leaves the state DISCONNECTED, tells the observer FAILED(DiscoveryError)
\* and creates no transport session.
C6_DiscoveryFailure ==
  [][(lastOp'.op = "start"
        /\ lastOp'.res \in {"discovery raised", "no stream"})
       => /\ state' = "DISCONNECTED"
          /\ Notified("DiscoveryError")'
          /\ pcs' = pcs]_vars

\* C7: when the transport reports "failed" or "closed" while the state is
\* CONNECTING or CONNECTED, the coordinator tears down and the observer is
\* told FAILED(TransportFailure).
C7_TransportFailureTearsDown ==
  [][(state \in {"CONNECTING", "CONNECTED"}
        /\ lastOp'.op = "on_connectionstatechange"
        /\ lastOp'.res \in {"failed", "closed"})
       => /\ state' \in {"DISCONNECTING", "DISCONNECTED"}
          /\ Notified("TransportFailure")']_vars

\* C8: the state is CONNECTED only if the current transport session has
\* reported "connected".
C8_ConnectedOnlyWhenTransportConnected ==
  state = "CONNECTED" =>
    /\ peer_connection # NoObject
    /\ "connected" \in pcs[peer_connection].reported

\* C9: a transport session created after discovery returned a session
\* record is configured with exactly the relay descriptors of that record.
C9_TransportGetsDiscoveredRelays ==
  [][(Len(pcs') > Len(pcs) /\ discovery.result.kind = "stream")
       => pcs'[Len(pcs')].configuration =
            ConfigureIceServers(discovery.result.params.ice_servers)]_vars

\* C10: every answer sent carries a local description that has been
\* applied, and when a step of handling an offer fails the transport
\* session is torn down.
C10_OfferNegotiation ==
  /\ \A j \in 1..Len(sockets) : \A k \in 1..Len(sockets[j].sent) :
       sockets[j].sent[k].type = "answer" => sockets[j].sent[k].body # None
  /\ (lastOp = [op |-> "offer", res |-> "raised"]
        /\ peer_connection # NoObject)
       => (pcs[peer_connection].closeCalls > 0 \/ cl # "idle")

\* format(zlib.crc32(token) & 0xFFFFFFFF, "08x")[4:] of each token, computed
\* once
Fingerprint == [u \in Uuids |-> SubSeq(format08x(crc32(u)), 5, 8)]

\* C11: every accepted start() generates a new session identity, and
\* whenever an identity exists its fingerprint is the last four hexadecimal
\* digits of the CRC-32 of its token, a function of the token alone.
C11_IdentityFingerprint ==
  /\ [](session_id # NoToken =>
          session_id_crc32 = Fingerprint[session_id])
  /\ [][(lastOp'.op = "start" /\ state = "DISCONNECTED"
           /\ state' # "DISCONNECTED")
          => (session_id' \in Uuids /\ session_id' # session_id)]_vars

\* a start() has been accepted and produced the identity UuidB, whose
\* fingerprint is "e0a5"
C11_Witness ==
  /\ lastOp.op = "start"
  /\ state = "CONNECTING"
  /\ session_id = UuidB
  /\ session_id_crc32 = <<14, 0, 10, 5>>

\* C12: when a stop() called while the state was CONNECTING has been
\* processed, the set-up in flight is cancelled (no task is left in the
\* polling loop) and the state is DISCONNECTED.
C12_StopCancelsSetup ==
  (/\ lastOp.op = "cleanup"
   /\ cl = "idle"
   /\ stops # <<>>
   /\ stops[Len(stops)] = "CONNECTING")
    => (pollers = 0 /\ state = "DISCONNECTED")

\* C13: the CONNECTING phase always ends: from CONNECTING the state
\* eventually becomes CONNECTED or DISCONNECTED.
C13_ConnectingEnds ==
  (state = "CONNECTING") ~> (state \in {"CONNECTED", "DISCONNECTED"})

\* the operations that handle an inbound message or a transport event
EventOps ==
  {"offer", "ice-candidate", "signaling", "on_connectionstatechange",
   "on_track", "on_icecandidate"}

\* C14: events are handled one at a time: while an offer is being handled
\* (the handler is suspended between two of its steps) the next event
\* handler step is the next step of that offer, never another handler.
C14_EventsOneAtATime ==
  [][(sig.pc # "idle" /\ lastOp'.op \in EventOps)
       => lastOp'.op = "offer"]_vars

\* C15: teardown is best-effort: a cleanup() never ends by raising, and
\* when it has ended, close has been attempted on the signaling channel
\* whatever the close of the transport session did.
C15_TeardownBestEffort ==
  (lastOp.op = "cleanup" /\ cl = "idle")
    => /\ lastOp.res = "done"
       /\ web_socket # NoObject => sockets[web_socket].closeCalls > 0

\* C16: teardown clears the session identity and the pending candidate
\* buffer: after a completed cleanup() the identity is absent and the
\* buffer is empty.
C16_TeardownClearsIdentity ==
  lastOp = [op |-> "cleanup", res |-> "done"]
    => /\ session_id = NoToken
       /\ session_id_crc32 = NoToken
       /\ ice_candidates_before_sdp_answer = <<>>

\* C17: a locally gathered candidate is sent only on an open signaling
\* channel: handling one never fails for want of a channel, and no send of
\* an ice-candidate message was attempted on a closed socket.
C17_LocalCandidateNeedsOpenChannel ==
  /\ lastOp.op = "on_icecandidate" => lastOp.res \in {"sent", "no candidate"}
  /\ \A j \in 1..Len(sockets) : \A k \in 1..Len(sockets[j].sent) :
       sockets[j].sent[k].type = "ice-candidate" => ~sockets[j].sent[k].closed

\* C18: the transport event handlers are registered before the signaling
\* channel is opened and before any offer is handled.
C18_HandlersBeforeChannel ==
  (web_socket_opened \/ lastOp.op = "offer")
    => /\ peer_connection # NoObject
       /\ (FactoryHandlers \cup SetupHandlers)
             \subseteq pcs[peer_connection].handlers

\* C19: the state is CONNECTED only while a peer connection exists.
C19_ConnectedHasPeerConnection ==
  state = "CONNECTED" => peer_connection # NoObject

\* C20: a start() called with an empty device id, access token or model
\* raises ValueError, in every state, and changes nothing: no field of the
\* coordinator, no discovery call, no task.
C20_EmptyParameterRejected ==
  [][(lastOp'.op = "start"
        /\ \E i \in 1..3 : lastOp'.args[i] = "")
       => /\ lastOp'.res = "ValueError"
          /\ UNCHANGED <<coordinator, environment, tasks, history>>]_vars

\* a start() with an empty model has just raised ValueError while the state
\* is CONNECTED, after the one discovery call of the accepted start
C20_Witness ==
  /\ lastOp = StartOp("ValueError", "x", "x", "")
  /\ state = "CONNECTED"
  /\ model = "x"
  /\ discovery.calls = 1

====
